---- MODULE Spec2Model ----
(***************************************************************************)
(* go-xslate: the template virtual machine (opcode handlers, registers,    *)
(* operand stack, frame, mark stack, output buffer) together with the      *)
(* util.Frame and Stack helpers it runs on.                                *)
(***************************************************************************)
EXTENDS Integers, Sequences, FiniteSets, TLC

VARIABLES
    prog,       \* name of the ByteCode being rendered
    stash,      \* the variable bag (Vars), read-only
    pc,         \* State.pc, 0-based index into the bytecode
    sa, sb,     \* registers
    stack,      \* operand stack: [data : Seq(Value), cur : Nat]
    fmark,      \* mark of the current Frame
    markstack,  \* State mark stack (sequence of absolute indices, top last)
    output,     \* output buffer (sequence of characters)
    warnings,   \* number of Warnf calls so far
    calls,      \* host methods invoked so far (names, in order)
    status,     \* "running" | "halted" (end reached) | "panicked" | "idle"
    last,       \* result of the last Stack/Frame operation of a harness
    pend,       \* the most recent SetLvar not yet overwritten
    hist,       \* values pushed and not yet popped, bottom first
    ld,         \* a CachedByteCodeLoader, its caches, the template sources
                \* and the outcome of its last Load
    ast         \* parser nodes: a heap of nodes, or a tree being visited

vars == <<prog, stash, pc, sa, sb, stack, fmark, markstack, output, warnings,
          calls, status, last, pend, hist, ld, ast>>

vmvars == <<prog, stash, pc, sa, sb, markstack, output, warnings, calls, status,
            ld, ast>>

----------------------------------------------------------------------------
(* Bounds *)

MaxInitCap == 2      \* largest initial capacity tried for a Stack
MaxPush    == 5      \* pushes per Stack/Frame run
MaxMark    == 2      \* largest mark given to Frame.SetMark
MaxSlot    == 2      \* largest lvar index used by the Frame harness
MaxSeqLen  == 3      \* longest sequence iterated by the foreach programs

----------------------------------------------------------------------------
(* Values: interface{} as a tagged cell.  Every cell has the same fields   *)
(* so that cells of different kinds can be compared.                       *)
(*   k : kind;  i : integer payload / numerator / record type;             *)
(*   d : denominator of a float (0 for +Inf, -Inf, NaN);                   *)
(*   s : characters of a string;  e : elements of a sequence.              *)

Cell(k, i, d, s, e) == [k |-> k, i |-> i, d |-> d, s |-> s, e |-> e]

Nil        == Cell("nil", 0, 1, <<>>, <<>>)
IntV(n)    == Cell("int", n, 1, <<>>, <<>>)
UintV(n)   == Cell("uint", n, 1, <<>>, <<>>)
FloatV(n, m) == Cell("float", n, m, <<>>, <<>>)
BoolV(b)   == Cell("bool", IF b THEN 1 ELSE 0, 1, <<>>, <<>>)
StrV(s)    == Cell("str", 0, 1, s, <<>>)
RawV(s)    == Cell("raw", 0, 1, s, <<>>)
SeqV(e)    == Cell("seq", 0, 1, <<>>, e)
RValueV(e) == Cell("rvalue", 0, 1, <<>>, e)   \* a reflect.Value over a slice
RecV(t)    == Cell("rec", t, 1, <<>>, <<>>)   \* a host struct of type t

----------------------------------------------------------------------------
(* Stack *)

NewStack(c) == [data |-> [j \in 1..c |-> Nil], cur |-> 0]

Cur(s) == s.cur

PushLosing(s, v) ==
    LET grown == IF s.cur >= Len(s.data)
                 THEN [j \in 1..(2 * Len(s.data)) |-> Nil]
                 ELSE s.data
    IN  [data |-> [grown EXCEPT ![s.cur + 1] = v], cur |-> s.cur + 1]

Push(s, v) ==
    LET grown == IF s.cur >= Len(s.data)
                 THEN s.data \o [j \in 1..Len(s.data) |-> Nil]
                 ELSE s.data
    IN  [data |-> [grown EXCEPT ![s.cur + 1] = v], cur |-> s.cur + 1]

Pop(s) ==
    [stack |-> [data |-> [s.data EXCEPT ![s.cur] = Nil], cur |-> s.cur - 1],
     ret   |-> s.data[s.cur]]

Get(s, i) ==
    IF i < 0 \/ i >= Len(s.data)
    THEN [v |-> Nil, err |-> TRUE]
    ELSE [v |-> s.data[i + 1], err |-> FALSE]

Set(s, i, v) ==
    IF i < 0 \/ i >= Len(s.data)
    THEN s
    ELSE [s EXCEPT !.data[i + 1] = v]

----------------------------------------------------------------------------
(* Frame: a view over a stack with a mark *)

GetLvar(s, mark, i) ==
    LET r == Get(s, i - mark)
    IN  IF r.err THEN Nil ELSE r.v

SetLvar(s, mark, i, v) == Set(s, i - mark, v)

DeclareVar(s, v) ==
    LET t == Push(s, v)
    IN  [stack |-> t, ret |-> Cur(t)]

LastLvarIndex(s) == Cur(s)

----------------------------------------------------------------------------
(* Strings are sequences of one-character strings *)

RECURSIVE Concat(_)
Concat(ss) == IF ss = <<>> THEN <<>> ELSE Head(ss) \o Concat(Tail(ss))

Digit(n) == <<"0", "1", "2", "3", "4", "5", "6", "7", "8", "9">>[n + 1]

RECURSIVE NatToString(_)
NatToString(n) ==
    IF n < 10 THEN <<Digit(n)>>
    ELSE Append(NatToString(n \div 10), Digit(n % 10))

IntToString(n) == IF n < 0 THEN <<"-">> \o NatToString(0 - n) ELSE NatToString(n)

Abs(n) == IF n < 0 THEN 0 - n ELSE n

RECURSIVE GCD(_, _)
GCD(a, b) == IF b = 0 THEN a ELSE GCD(b, a % b)

\* a float as a reduced fraction; a zero denominator is +Inf, -Inf or NaN
MkFloat(n, m) ==
    IF m = 0 THEN FloatV(IF n > 0 THEN 1 ELSE IF n < 0 THEN 0 - 1 ELSE 0, 0)
    ELSE LET g == GCD(Abs(n), Abs(m))
             sgn == IF m < 0 THEN 0 - 1 ELSE 1
         IN  FloatV(sgn * (n \div g), sgn * (m \div g))

MaxFracDigits == 16

\* the digits of r/m after the decimal point (r < m), exact when the
\* expansion ends within MaxFracDigits digits and cut there otherwise
RECURSIVE FracDigits(_, _, _)
FracDigits(r, m, left) ==
    IF r = 0 \/ left = 0 THEN <<>>
    ELSE <<Digit((10 * r) \div m)>> \o FracDigits((10 * r) % m, m, left - 1)

\* strconv.FormatFloat(f, 'f', -1, 64)
FloatToString(n, m) ==
    IF m = 0 THEN (IF n > 0 THEN <<"+", "I", "n", "f">>
                   ELSE IF n < 0 THEN <<"-", "I", "n", "f">>
                   ELSE <<"N", "a", "N">>)
    ELSE LET a == Abs(n)
             whole == NatToString(a \div m)
             frac == FracDigits(a % m, m, MaxFracDigits)
         IN  (IF n < 0 THEN <<"-">> ELSE <<>>) \o whole \o
             (IF frac = <<>> THEN <<>> ELSE <<".">> \o frac)

RECURSIVE JoinStrings(_, _)
JoinStrings(ss, sep) ==
    IF ss = <<>> THEN <<>>
    ELSE IF Len(ss) = 1 THEN ss[1]
    ELSE ss[1] \o sep \o JoinStrings(Tail(ss), sep)

\* scalars first: the elements of a sequence are scalars
scalarToString(v) ==
    CASE v.k = "nil"   -> <<>>
      [] v.k = "raw"   -> v.s
      [] v.k = "str"   -> v.s
      [] v.k = "bool"  -> IF v.i = 1 THEN <<"t", "r", "u", "e">>
                          ELSE <<"f", "a", "l", "s", "e">>
      [] v.k = "int"   -> IntToString(v.i)
      [] v.k = "uint"  -> IntToString(v.i)
      [] v.k = "float" -> FloatToString(v.i, v.d)
      [] OTHER         -> <<"{", "}">>

interfaceToString(v) ==
    CASE v.k = "seq"    -> <<"[">> \o JoinStrings([j \in 1..Len(v.e) |->
                                  scalarToString(v.e[j])], <<" ">>) \o <<"]">>
      [] v.k = "rvalue" -> <<"<", "s", "l", "i", "c", "e", " ",
                             "V", "a", "l", "u", "e", ">">>
      [] v.k = "rec"    -> <<"{", "}">>
      [] OTHER          -> scalarToString(v)

interfaceToBool(v) ==
    CASE v.k = "nil"   -> FALSE
      [] v.k = "bool"  -> v.i = 1
      [] v.k \in {"int", "uint", "float"} -> v.i # 0 \/ v.d = 0
      [] v.k \in {"str", "raw"} -> v.s # <<>>
      [] v.k = "seq"   -> v.e # <<>>
      [] OTHER         -> TRUE

EscapeChar(c) ==
    CASE c = "&"  -> <<"&", "a", "m", "p", ";">>
      [] c = "<"  -> <<"&", "l", "t", ";">>
      [] c = ">"  -> <<"&", "g", "t", ";">>
      [] c = "\"" -> <<"&", "#", "3", "4", ";">>
      [] c = "'"  -> <<"&", "#", "3", "9", ";">>
      [] OTHER    -> <<c>>

\* html.EscapeString
htmlEscape(s) == Concat([j \in 1..Len(s) |-> EscapeChar(s[j])])

Unreserved ==
    {"a", "b", "c", "d", "e", "f", "g", "h", "i", "j", "k", "l", "m", "n",
     "o", "p", "q", "r", "s", "t", "u", "v", "w", "x", "y", "z",
     "A", "B", "C", "D", "E", "F", "G", "H", "I", "J", "K", "L", "M", "N",
     "O", "P", "Q", "R", "S", "T", "U", "V", "W", "X", "Y", "Z",
     "0", "1", "2", "3", "4", "5", "6", "7", "8", "9", "-", ".", "_", "~"}

PercentCode(c) ==
    CASE c = "<"  -> <<"%", "3", "C">>
      [] c = ">"  -> <<"%", "3", "E">>
      [] c = "&"  -> <<"%", "2", "6">>
      [] c = "\"" -> <<"%", "2", "2">>
      [] c = "'"  -> <<"%", "2", "7">>
      [] c = ","  -> <<"%", "2", "C">>
      [] c = " "  -> <<"%", "2", "0">>
      [] c = "+"  -> <<"%", "2", "B">>
      [] c = "["  -> <<"%", "5", "B">>
      [] c = "]"  -> <<"%", "5", "D">>
      [] c = "{"  -> <<"%", "7", "B">>
      [] c = "}"  -> <<"%", "7", "D">>
      [] c = ";"  -> <<"%", "3", "B">>
      [] c = "#"  -> <<"%", "2", "3">>
      [] OTHER    -> <<"%", "?", "?">>

escapeUriString(s) ==
    Concat([j \in 1..Len(s) |->
               IF s[j] \in Unreserved THEN <<s[j]>> ELSE PercentCode(s[j])])

Lower == <<"a", "b", "c", "d", "e", "f", "g", "h", "i", "j", "k", "l", "m",
           "n", "o", "p", "q", "r", "s", "t", "u", "v", "w", "x", "y", "z">>

Upper == <<"A", "B", "C", "D", "E", "F", "G", "H", "I", "J", "K", "L", "M",
           "N", "O", "P", "Q", "R", "S", "T", "U", "V", "W", "X", "Y", "Z">>

\* unicode.ToUpper on the characters the model uses
ToUpper(c) ==
    IF \E j \in 1..26 : Lower[j] = c
    THEN Upper[CHOOSE j \in 1..26 : Lower[j] = c]
    ELSE c

\* the argument of fetch_field_s with its first rune upper-cased
FieldName(name) ==
    IF name = <<>> THEN <<"?">> ELSE <<ToUpper(name[1])>> \o Tail(name)

DigitValue(c) == CHOOSE n \in 0..9 : Digit(n) = c

IsDigits(s) == s # <<>> /\ \A j \in 1..Len(s) : \E n \in 0..9 : Digit(n) = s[j]

RECURSIVE ParseNat(_)
ParseNat(s) ==
    IF s = <<>> THEN 0
    ELSE 10 * ParseNat(SubSeq(s, 1, Len(s) - 1)) + DigitValue(s[Len(s)])

\* a non-numeric operand: stringified, then parsed; zero when it does not parse
ParseNumber(s) ==
    IF IsDigits(s) THEN IntV(ParseNat(s))
    ELSE IF s # <<>> /\ s[1] = "-" /\ IsDigits(Tail(s))
         THEN IntV(0 - ParseNat(Tail(s)))
    ELSE IntV(0)

KindRank(k) == CASE k = "int" -> 1 [] k = "uint" -> 2 [] k = "float" -> 3

Promote(v, k) ==
    CASE k = "int"   -> IntV(v.i)
      [] k = "uint"  -> UintV(v.i)
      [] k = "float" -> IF v.k = "float" THEN v ELSE FloatV(v.i, 1)

\* both operands brought to the larger of their numeric kinds
alignTypesForArithmetic(a, b) ==
    LET na == IF a.k \in {"int", "uint", "float"} THEN a
              ELSE ParseNumber(interfaceToString(a))
        nb == IF b.k \in {"int", "uint", "float"} THEN b
              ELSE ParseNumber(interfaceToString(b))
        k  == IF KindRank(na.k) >= KindRank(nb.k) THEN na.k ELSE nb.k
    IN  [left |-> Promote(na, k), right |-> Promote(nb, k)]

----------------------------------------------------------------------------
(* Arithmetic on the aligned operands *)

IsNaN(a) == a.d = 0 /\ a.i = 0
IsInf(a) == a.d = 0 /\ a.i # 0
Sign(n) == IF n > 0 THEN 1 ELSE IF n < 0 THEN 0 - 1 ELSE 0

FloatAdd(a, b) ==
    IF IsNaN(a) \/ IsNaN(b) THEN FloatV(0, 0)
    ELSE IF IsInf(a) /\ IsInf(b) THEN (IF a.i = b.i THEN a ELSE FloatV(0, 0))
    ELSE IF IsInf(a) THEN a
    ELSE IF IsInf(b) THEN b
    ELSE MkFloat(a.i * b.d + b.i * a.d, a.d * b.d)

FloatNeg(a) == FloatV(0 - a.i, a.d)

FloatSub(a, b) == FloatAdd(a, FloatNeg(b))

FloatMul(a, b) ==
    IF IsNaN(a) \/ IsNaN(b) THEN FloatV(0, 0)
    ELSE IF IsInf(a) \/ IsInf(b) THEN FloatV(Sign(a.i) * Sign(b.i), 0)
    ELSE MkFloat(a.i * b.i, a.d * b.d)

FloatDiv(a, b) ==
    IF IsNaN(a) \/ IsNaN(b) THEN FloatV(0, 0)
    ELSE IF IsInf(a) THEN (IF IsInf(b) THEN FloatV(0, 0)
                           ELSE FloatV(a.i * (IF b.i < 0 THEN 0 - 1 ELSE 1), 0))
    ELSE IF IsInf(b) THEN FloatV(0, 1)
    ELSE MkFloat(a.i * b.d, a.d * b.i)

AddSwitch(l, r) ==
    CASE l.k = "int"   -> IntV(l.i + r.i)
      [] l.k = "uint"  -> UintV(l.i + r.i)
      [] l.k = "float" -> FloatAdd(l, r)

SubSwitchSwapped(l, r) ==
    CASE l.k = "int"   -> IntV(r.i - l.i)
      [] l.k = "uint"  -> UintV(r.i - l.i)
      [] l.k = "float" -> FloatSub(r, l)

SubSwitch(l, r) ==
    CASE l.k = "int"   -> IntV(l.i - r.i)
      [] l.k = "uint"  -> UintV(l.i - r.i)
      [] l.k = "float" -> FloatSub(l, r)

MulSwitch(l, r) ==
    CASE l.k = "int"   -> IntV(l.i * r.i)
      [] l.k = "uint"  -> UintV(l.i * r.i)
      [] l.k = "float" -> FloatMul(l, r)

\* integers are converted to float before dividing; unsigned division by
\* zero is a run-time panic
DivPanics(l, r) == l.k = "uint" /\ r.i = 0

DivSwitch(l, r) ==
    CASE l.k = "int"   -> MkFloat(l.i, r.i)
      [] l.k = "uint"  -> UintV(l.i \div r.i)
      [] l.k = "float" -> FloatDiv(l, r)

\* == on two interface{} values panics when both hold the same
\* uncomparable type (a slice)
EqPanics(a, b) == a.k = "seq" /\ b.k = "seq"

InterfaceEq(a, b) == a = b /\ ~(a.k = "float" /\ IsNaN(a))

----------------------------------------------------------------------------
(* Host values given to the templates *)

sName    == <<"N", "a", "m", "e">>
sTouch   == <<"T", "o", "u", "c", "h">>
sEcho    == <<"E", "c", "h", "o">>
sNope    == <<"N", "o", "p", "e">>
sString  == <<"S", "t", "r", "i", "n", "g">>
sAge     == <<"A", "g", "e">>
sage     == <<"a", "g", "e">>
smissing == <<"m", "i", "s", "s", "i", "n", "g">>
sAda     == <<"A", "d", "a", "<", ">">>
suser    == <<"u", "s", "e", "r">>
sxs      == <<"x", "s">>
sa_      == <<"a">>
sb_      == <<"b">>
sv       == <<"v">>
scomma   == <<",">>

UserType == 1   \* type User struct { Age int }; Name(), Touch(), Echo(x)

\* reflect.Type.MethodByName: NumIn counts the receiver
MethodByName(v, name) ==
    IF v.k = "raw" /\ name = sString
    THEN [ok |-> TRUE, numIn |-> 1, numOut |-> 1]
    ELSE IF v.k = "rec" /\ v.i = UserType /\ name = sName
    THEN [ok |-> TRUE, numIn |-> 1, numOut |-> 1]
    ELSE IF v.k = "rec" /\ v.i = UserType /\ name = sTouch
    THEN [ok |-> TRUE, numIn |-> 1, numOut |-> 0]
    ELSE IF v.k = "rec" /\ v.i = UserType /\ name = sEcho
    THEN [ok |-> TRUE, numIn |-> 2, numOut |-> 1]
    ELSE [ok |-> FALSE, numIn |-> 0, numOut |-> 0]

\* the first return value of method.Func.Call(args); args[1] is the receiver
CallResult(name, args) ==
    CASE name = sString -> StrV(args[1].s)
      [] name = sName   -> StrV(sAda)
      [] name = sEcho   -> IF Len(args) >= 2 THEN args[2] ELSE Nil
      [] OTHER          -> Nil

\* reflect.Value.FieldByName on a struct; anything else panics
HasField(v, name) == v.k = "rec" /\ v.i = UserType /\ name = sAge

FieldValue(v, name) == IntV(30)

----------------------------------------------------------------------------
(* Harness state shared by the Stack and Frame specifications *)

HarnessVals == {IntV(1), IntV(2)}

NoLast == [op |-> "none", i |-> 0, v |-> Nil, ret |-> Nil, err |-> FALSE,
           before |-> <<>>]

NoPend == [ok |-> FALSE, i |-> 0, v |-> Nil]

\* no loader has been constructed
NoLoader == [impl |-> "none"]

\* no node has been made
NoAst == [kind |-> "none"]

VMIdle ==
    /\ prog = "none"
    /\ stash = <<>>
    /\ pc = 0
    /\ sa = Nil
    /\ sb = Nil
    /\ markstack = <<>>
    /\ output = <<>>
    /\ warnings = 0
    /\ calls = <<>>
    /\ status = "idle"

----------------------------------------------------------------------------
(* Stack harness: Push, Get and Pop on a stack of small initial capacity *)

InitStack ==
    /\ VMIdle
    /\ ld = NoLoader
    /\ ast = NoAst
    /\ \E c \in 1..MaxInitCap : stack = NewStack(c)
    /\ fmark = 0
    /\ last = NoLast
    /\ pend = NoPend
    /\ hist = <<>>

DoPush ==
    /\ Len(hist) < MaxPush
    /\ \E v \in HarnessVals :
        /\ stack' = Push(stack, v)
        /\ hist' = Append(hist, v)
        /\ last' = [NoLast EXCEPT !.op = "Push", !.v = v]
    /\ UNCHANGED <<vmvars, fmark, pend>>

DoGet ==
    /\ \E i \in 0..(MaxPush - 1) :
        LET r == Get(stack, i)
        IN  last' = [NoLast EXCEPT !.op = "Get", !.i = i, !.ret = r.v,
                                   !.err = r.err]
    /\ UNCHANGED <<vmvars, stack, fmark, pend, hist>>

DoPop ==
    /\ Cur(stack) > 0
    /\ LET r == Pop(stack)
       IN  /\ stack' = r.stack
           /\ last' = [NoLast EXCEPT !.op = "Pop", !.ret = r.ret,
                                     !.v = hist[Len(hist)]]
    /\ hist' = SubSeq(hist, 1, Len(hist) - 1)
    /\ UNCHANGED <<vmvars, fmark, pend>>

NextStack == DoPush \/ DoGet \/ DoPop

StackSpec == InitStack /\ [][NextStack]_vars

----------------------------------------------------------------------------
(* Frame harness: a frame over a freshly created stack *)

FrameCap == 5   \* stack.New(5) in TestFrame_Lvar

InitFrame ==
    /\ VMIdle
    /\ ld = NoLoader
    /\ ast = NoAst
    /\ stack = NewStack(FrameCap)
    /\ fmark = 0
    /\ last = NoLast
    /\ pend = NoPend
    /\ hist = <<>>

DoSetMark ==
    /\ \E m \in 0..MaxMark :
        /\ fmark' = m
        /\ last' = [NoLast EXCEPT !.op = "SetMark", !.i = m]
    /\ pend' = NoPend
    /\ UNCHANGED <<vmvars, stack, hist>>

DoSetLvar ==
    /\ \E i \in 0..MaxSlot, v \in HarnessVals :
        /\ stack' = SetLvar(stack, fmark, i, v)
        /\ last' = [NoLast EXCEPT !.op = "SetLvar", !.i = i, !.v = v,
                                  !.before = stack.data]
        /\ pend' = [ok |-> TRUE, i |-> i, v |-> v]
    /\ UNCHANGED <<vmvars, fmark, hist>>

DoGetLvar ==
    /\ \E i \in 0..MaxSlot :
        last' = [NoLast EXCEPT !.op = "GetLvar", !.i = i,
                               !.ret = GetLvar(stack, fmark, i)]
    /\ UNCHANGED <<vmvars, stack, fmark, pend, hist>>

DoDeclareVar ==
    /\ Len(hist) < MaxPush - 3
    /\ \E v \in HarnessVals :
        LET r == DeclareVar(stack, v)
        IN  /\ stack' = r.stack
            /\ last' = [NoLast EXCEPT !.op = "DeclareVar", !.v = v,
                                      !.i = r.ret]
            /\ hist' = Append(hist, v)
    /\ pend' = NoPend
    /\ UNCHANGED <<vmvars, fmark>>

NextFrame == DoSetMark \/ DoSetLvar \/ DoGetLvar \/ DoDeclareVar

FrameSpec == InitFrame /\ [][NextFrame]_vars

----------------------------------------------------------------------------
(* Claims about Stack and Frame *)

EntryAt(s, a) == IF a >= 0 /\ a < Len(s.data) THEN s.data[a + 1] ELSE Nil

WriteAt(d, a, v) == IF a >= 0 /\ a < Len(d) THEN [d EXCEPT ![a + 1] = v] ELSE d

\* C3: for a frame with mark m and any i, GetLvar(i) returns the stack entry
\* at absolute index m + i, and SetLvar(i, v) writes v at absolute index
\* m + i and at no other index.
C3_LvarIsMarkPlusI ==
    /\ (last.op = "GetLvar" /\ fmark + last.i < Len(stack.data))
          => last.ret = EntryAt(stack, fmark + last.i)
    /\ (last.op = "SetLvar" /\ fmark + last.i < Len(stack.data))
          => stack.data = WriteAt(last.before, fmark + last.i, last.v)

\* C4: SetLvar(i, v) followed by GetLvar(i), with no write to slot i and no
\* change of mark in between, returns v, whatever mark the frame has.
C4_SetThenGet ==
    (last.op = "GetLvar" /\ pend.ok /\ pend.i = last.i) => last.ret = pend.v

\* C5: after pushing v0..v(n-1) onto a stack of initial capacity c < n,
\* Get(i) returns vi without error for every i < n, and successive Pops
\* return the values in reverse order of pushing.
C5_GrowKeepsValues ==
    /\ \A i \in 0..(Len(hist) - 1) :
          Get(stack, i) = [v |-> hist[i + 1], err |-> FALSE]
    /\ (last.op = "Get" /\ last.i < Len(hist))
          => (~last.err /\ last.ret = hist[last.i + 1])
    /\ last.op = "Pop" => last.ret = last.v
    /\ Cur(stack) = Len(hist)

\* the stack has grown beyond every initial capacity and has then been
\* popped back to empty
C5_Witness ==
    /\ Len(stack.data) > 2 * MaxInitCap
    /\ last.op = "Pop"
    /\ hist = <<>>

----------------------------------------------------------------------------
(* Bytecode *)

O(op) == [op |-> op, arg |-> Nil]
OA(op, arg) == [op |-> op, arg |-> arg]

\* spec.md section 8, scenarios 1 to 3, and the other print-family opcodes
PrintCode ==
    << O("noop"), OA("fetch_s", StrV(sv)), O("move_to_sb"), O("push"),
       O("print"), O("mark_raw"), O("print"), O("unmark_raw"), O("print"),
       O("print_raw"), O("html_escape"), O("print"), O("uri_escape"),
       O("print_raw"), O("nil"), O("print"), O("print_raw"), O("end") >>

\* print of a value that is already a raw string
RawCode ==
    << OA("fetch_s", StrV(sv)), O("mark_raw"), O("move_to_sb"), O("push"),
       O("print"), O("end") >>

\* spec.md section 8, scenario 4
MethodCode ==
    << O("pushmark"), OA("fetch_s", StrV(suser)), O("push"),
       OA("methodcall", StrV(sName)), O("print"), O("popmark"), O("end") >>

\* a method the invocant's type does not have
NoMethodCode ==
    << O("pushmark"), OA("fetch_s", StrV(suser)), O("push"),
       OA("methodcall", StrV(sNope)), O("print"), O("popmark"), O("end") >>

\* one argument too many for Name(), then Echo(7) and Touch()
ArityCode ==
    << O("pushmark"), OA("fetch_s", StrV(suser)), O("push"),
       OA("literal", IntV(1)), O("push"),
       OA("methodcall", StrV(sName)), O("print"), O("popmark"),
       O("pushmark"), OA("fetch_s", StrV(suser)), O("push"),
       OA("literal", IntV(7)), O("push"),
       OA("methodcall", StrV(sEcho)), O("print"), O("popmark"),
       O("pushmark"), OA("fetch_s", StrV(suser)), O("push"),
       OA("methodcall", StrV(sTouch)), O("print_raw"), O("popmark"),
       O("pushmark"), OA("fetch_s", StrV(suser)), O("push"),
       OA("methodcall", StrV(sEcho)), O("print"), O("popmark"),
       O("end") >>

\* spec.md section 8, scenario 6, as written
Scenario6Code ==
    << OA("fetch_s", StrV(sxs)), OA("for_start", IntV(0)),
       OA("for_iter", IntV(5)), OA("load_lvar", IntV(0)), O("print"),
       OA("literal", StrV(scomma)), O("print"), OA("goto", IntV(0 - 5)),
       O("end") >>

\* scenario 6 with the loop id loaded into SA before every for_iter and
\* the exit offset leading to the end opcode
ForeachCode ==
    << OA("fetch_s", StrV(sxs)), OA("for_start", IntV(0)),
       OA("literal", IntV(0)),
       OA("for_iter", IntV(7)), OA("load_lvar", IntV(0)), O("print"),
       OA("literal", StrV(scomma)), O("print"),
       OA("literal", IntV(0)), OA("goto", IntV(0 - 6)),
       O("end") >>

LoopId == 1

\* for_start id, for_iter, body, goto; the body prints item and index
LoopCode ==
    << OA("literal", StrV(sa_)), OA("save_to_lvar", IntV(0)),
       OA("literal", StrV(sb_)), OA("save_to_lvar", IntV(4)),
       O("print"),
       OA("fetch_s", StrV(sxs)), OA("for_start", IntV(LoopId)),
       OA("literal", IntV(LoopId)),
       OA("for_iter", IntV(7)),
       OA("load_lvar", IntV(LoopId)), O("print"),
       OA("load_lvar", IntV(LoopId + 1)), O("print"),
       OA("literal", IntV(LoopId)), OA("goto", IntV(0 - 6)),
       O("end") >>

LoopIterPc == 8     \* the for_iter of LoopCode
LoopBodyPcs == 9..14
LoopExitPc == 15

ArithCode ==
    << OA("fetch_s", StrV(sa_)), O("move_to_sb"),
       OA("fetch_s", StrV(sb_)), O("add"), O("print"),
       OA("fetch_s", StrV(sb_)), O("sub"), O("print"),
       OA("fetch_s", StrV(sb_)), O("mul"), O("print"),
       OA("fetch_s", StrV(sb_)), O("div"), O("print"),
       OA("fetch_s", StrV(sb_)), O("eq"), OA("and", IntV(2)), O("print"),
       OA("fetch_s", StrV(sb_)), O("ne"), O("print"),
       O("move_from_sb"), O("print"), OA("goto", IntV(2)), O("noop"),
       O("end") >>

FieldCode ==
    << OA("fetch_s", StrV(suser)), OA("fetch_field_s", StrV(sage)),
       O("print"),
       OA("fetch_s", StrV(suser)), OA("fetch_field_s", StrV(smissing)),
       O("print"), O("end") >>

\* a jump past the last instruction
RunOffCode == << OA("literal", IntV(1)), OA("goto", IntV(2)), O("end") >>

\* popmark and methodcall without a pushmark
NoMarkCode == << OA("fetch_s", StrV(sv)), O("push"),
                 OA("methodcall", StrV(sName)), O("popmark"), O("end") >>

\* a method call whose argument is itself the result of a method call
NestedCode ==
    << O("pushmark"), OA("fetch_s", StrV(suser)), O("push"),
       O("pushmark"), OA("fetch_s", StrV(suser)), O("push"),
       OA("methodcall", StrV(sName)), O("popmark"), O("push"),
       OA("methodcall", StrV(sEcho)), O("print"), O("popmark"), O("end") >>

\* mark_raw immediately followed by unmark_raw; SB keeps the original SA
RawRoundCode ==
    << OA("fetch_s", StrV(sv)), O("move_to_sb"), O("mark_raw"),
       O("unmark_raw"), O("print"), O("end") >>

Code(p) ==
    CASE p = "print"     -> PrintCode
      [] p = "nested"    -> NestedCode
      [] p = "rawround"  -> RawRoundCode
      [] p = "raw"       -> RawCode
      [] p = "method"    -> MethodCode
      [] p = "nomethod"  -> NoMethodCode
      [] p = "arity"     -> ArityCode
      [] p = "scenario6" -> Scenario6Code
      [] p = "foreach"   -> ForeachCode
      [] p = "loop"      -> LoopCode
      [] p = "arith"     -> ArithCode
      [] p = "field"     -> FieldCode
      [] p = "runoff"    -> RunOffCode
      [] p = "nomark"    -> NoMarkCode
      [] OTHER           -> <<>>

----------------------------------------------------------------------------
(* Inputs *)

Items == {IntV(1), IntV(2)}

SeqsUpTo(n) == UNION {[1..m -> Items] : m \in 0..n}

Strings ==
    { <<>>, <<"h", "i">>, <<"<", "b", ">">>, <<"<", "a", "&", "b", ">">>,
      <<"&", "a", "m", "p", ";">>, <<"\"", "'">>, <<"1", "2">> }

Scalars ==
    {Nil, IntV(3), IntV(0 - 4), UintV(2), UintV(0), FloatV(5, 2), IntV(0),
     BoolV(TRUE)} \cup {StrV(s) : s \in Strings}

PrintVals == Scalars \cup {RawV(<<"<", "b", ">">>), RecV(UserType),
                           SeqV(<<IntV(1), IntV(2)>>)}

Users == {RecV(UserType), Nil, IntV(5), RawV(<<"<", "b", ">">>)}

ArithVals == {IntV(3), IntV(2), IntV(0), IntV(0 - 4), UintV(2), UintV(0),
              FloatV(5, 2), StrV(<<"1", "2">>), StrV(<<"h", "i">>), Nil,
              SeqV(<<IntV(1)>>)}

Bag1(k, v) == [x \in {k} |-> v]

Bag2(k1, v1, k2, v2) == [x \in {k1, k2} |-> IF x = k1 THEN v1 ELSE v2]

Runs ==
    {[prog |-> "print", stash |-> Bag1(sv, v)] : v \in PrintVals}
    \cup {[prog |-> "raw", stash |-> Bag1(sv, v)] : v \in PrintVals}
    \cup {[prog |-> p, stash |-> Bag1(suser, u)] :
             p \in {"method", "nomethod", "arity", "field"}, u \in Users}
    \cup {[prog |-> p, stash |-> Bag1(sxs, SeqV(e))] :
             p \in {"scenario6", "foreach", "loop"}, e \in SeqsUpTo(MaxSeqLen)}
    \cup {[prog |-> p, stash |-> Bag1(sxs, SeqV(<<IntV(1), IntV(2), IntV(3)>>))] :
             p \in {"scenario6", "foreach", "loop"}}
    \cup {[prog |-> "loop", stash |-> Bag1(sxs, v)] : v \in Scalars}
    \cup {[prog |-> "loop", stash |-> <<>>]}
    \cup {[prog |-> "loop", stash |-> Bag1(sxs, RecV(UserType))]}
    \cup {[prog |-> "nested", stash |-> Bag1(suser, u)] : u \in Users}
    \cup {[prog |-> "rawround", stash |-> Bag1(sv, v)] : v \in PrintVals}
    \cup {[prog |-> "arith", stash |-> Bag2(sa_, a, sb_, b)] :
             a \in ArithVals, b \in ArithVals}
    \cup {[prog |-> "runoff", stash |-> <<>>]}
    \cup {[prog |-> "nomark", stash |-> Bag1(sv, v)] : v \in Users}

----------------------------------------------------------------------------
(* State *)

StateStackCap == 5

fixed == <<prog, stash, fmark, last, pend, hist, ld, ast>>

Init ==
    /\ \E r \in Runs : prog = r.prog /\ stash = r.stash
    /\ pc = 0
    /\ sa = Nil
    /\ sb = Nil
    /\ stack = NewStack(StateStackCap)
    /\ fmark = 0
    /\ markstack = <<>>
    /\ output = <<>>
    /\ warnings = 0
    /\ calls = <<>>
    /\ status = "running"
    /\ last = NoLast
    /\ pend = NoPend
    /\ hist = <<>>
    /\ ld = NoLoader
    /\ ast = NoAst

InRange == pc >= 0 /\ pc < Len(Code(prog))

CurrentOp == Code(prog)[pc + 1]

ArgInt == CurrentOp.arg.i

ArgString == interfaceToString(CurrentOp.arg)

At(o) == status = "running" /\ InRange /\ CurrentOp.op = o

Advance == pc' = pc + 1

AdvanceBy(n) == pc' = pc + n

CurrentMark == markstack[Len(markstack)]

\* a run-time panic ends the render where it stands
Panic ==
    /\ status' = "panicked"
    /\ UNCHANGED <<pc, sa, sb, stack, markstack, output, warnings, calls>>

----------------------------------------------------------------------------
(* Opcode handlers *)

txEnd ==
    /\ At("end")
    /\ status' = "halted"
    /\ UNCHANGED <<pc, sa, sb, stack, markstack, output, warnings, calls, fixed>>

txNil ==
    /\ At("nil")
    /\ sa' = Nil
    /\ Advance
    /\ UNCHANGED <<sb, stack, markstack, output, warnings, calls, status, fixed>>

txNoop ==
    /\ At("noop")
    /\ Advance
    /\ UNCHANGED <<sa, sb, stack, markstack, output, warnings, calls, status, fixed>>

txMoveToSb ==
    /\ At("move_to_sb")
    /\ sb' = sa
    /\ Advance
    /\ UNCHANGED <<sa, stack, markstack, output, warnings, calls, status, fixed>>

txMoveFromSb ==
    /\ At("move_from_sb")
    /\ sa' = sb
    /\ Advance
    /\ UNCHANGED <<sb, stack, markstack, output, warnings, calls, status, fixed>>

txLiteral ==
    /\ At("literal")
    /\ sa' = CurrentOp.arg
    /\ Advance
    /\ UNCHANGED <<sb, stack, markstack, output, warnings, calls, status, fixed>>

txFetchSymbol ==
    /\ At("fetch_s")
    /\ LET key == CurrentOp.arg.s
       IN  sa' = IF key \in DOMAIN stash THEN stash[key] ELSE Nil
    /\ Advance
    /\ UNCHANGED <<sb, stack, markstack, output, warnings, calls, status, fixed>>

txFetchField ==
    /\ At("fetch_field_s")
    /\ IF sa = Nil
       THEN /\ sa' = Nil
            /\ Advance
            /\ UNCHANGED <<sb, stack, markstack, output, warnings, calls, status>>
       ELSE IF HasField(sa, FieldName(ArgString))
       THEN /\ sa' = FieldValue(sa, FieldName(ArgString))
            /\ Advance
            /\ UNCHANGED <<sb, stack, markstack, output, warnings, calls, status>>
       ELSE Panic
    /\ UNCHANGED fixed

\* reflect.ValueOf(nil).Type() panics
txMarkRaw ==
    /\ At("mark_raw")
    /\ IF sa = Nil
       THEN Panic
       ELSE /\ sa' = IF sa.k # "raw" THEN RawV(interfaceToString(sa)) ELSE sa
            /\ Advance
            /\ UNCHANGED <<sb, stack, markstack, output, warnings, calls, status>>
    /\ UNCHANGED fixed

txUnmarkRaw ==
    /\ At("unmark_raw")
    /\ IF sa = Nil
       THEN Panic
       ELSE /\ sa' = IF sa.k = "raw" THEN StrV(interfaceToString(sa)) ELSE sa
            /\ Advance
            /\ UNCHANGED <<sb, stack, markstack, output, warnings, calls, status>>
    /\ UNCHANGED fixed

PrintTextNoEscape(arg) == interfaceToString(arg)

\* what txPrint appends for a non-nil register
PrintText(arg) ==
    IF arg.k # "raw"
    THEN htmlEscape(interfaceToString(arg))
    ELSE interfaceToString(arg)

txPrint ==
    /\ At("print")
    /\ IF sa = Nil
       THEN /\ warnings' = warnings + 1
            /\ UNCHANGED output
       ELSE /\ output' = output \o PrintText(sa)
            /\ UNCHANGED warnings
    /\ Advance
    /\ UNCHANGED <<sa, sb, stack, markstack, calls, status, fixed>>

PrintRawTextEscaped(arg) == htmlEscape(interfaceToString(arg))

\* what txPrintRaw appends for a non-nil register
PrintRawText(arg) == interfaceToString(arg)

txPrintRaw ==
    /\ At("print_raw")
    /\ IF sa = Nil
       THEN /\ warnings' = warnings + 1
            /\ UNCHANGED output
       ELSE /\ output' = output \o PrintRawText(sa)
            /\ UNCHANGED warnings
    /\ Advance
    /\ UNCHANGED <<sa, sb, stack, markstack, calls, status, fixed>>

txSaveToLvar ==
    /\ At("save_to_lvar")
    /\ stack' = SetLvar(stack, fmark, ArgInt, sa)
    /\ Advance
    /\ UNCHANGED <<sa, sb, markstack, output, warnings, calls, status, fixed>>

txLoadLvar ==
    /\ At("load_lvar")
    /\ sa' = GetLvar(stack, fmark, ArgInt)
    /\ Advance
    /\ UNCHANGED <<sb, stack, markstack, output, warnings, calls, status, fixed>>

txAdd ==
    /\ At("add")
    /\ LET al == alignTypesForArithmetic(sb, sa)
       IN  sa' = AddSwitch(al.left, al.right)
    /\ Advance
    /\ UNCHANGED <<sb, stack, markstack, output, warnings, calls, status, fixed>>

txSub ==
    /\ At("sub")
    /\ LET al == alignTypesForArithmetic(sb, sa)
       IN  sa' = SubSwitch(al.left, al.right)
    /\ Advance
    /\ UNCHANGED <<sb, stack, markstack, output, warnings, calls, status, fixed>>

txMul ==
    /\ At("mul")
    /\ LET al == alignTypesForArithmetic(sb, sa)
       IN  sa' = MulSwitch(al.left, al.right)
    /\ Advance
    /\ UNCHANGED <<sb, stack, markstack, output, warnings, calls, status, fixed>>

txDiv ==
    /\ At("div")
    /\ LET al == alignTypesForArithmetic(sb, sa)
       IN  IF DivPanics(al.left, al.right)
           THEN Panic
           ELSE /\ sa' = DivSwitch(al.left, al.right)
                /\ Advance
                /\ UNCHANGED <<sb, stack, markstack, output, warnings, calls,
                               status>>
    /\ UNCHANGED fixed

txAnd ==
    /\ At("and")
    /\ IF interfaceToBool(sa) THEN Advance ELSE AdvanceBy(ArgInt)
    /\ UNCHANGED <<sa, sb, stack, markstack, output, warnings, calls, status, fixed>>

txGoto ==
    /\ At("goto")
    /\ AdvanceBy(ArgInt)
    /\ UNCHANGED <<sa, sb, stack, markstack, output, warnings, calls, status, fixed>>

\* the three lvar slots of a foreach: item, index, slice
ItemSlot(id) == id

IndexSlot(id) == id + 1

SliceSlotWide(id) == id + 3

SliceSlot(id) == id + 2

ForStartSliceWrapping(v) == RValueV(IF v.k = "seq" THEN v.e ELSE <<Nil>>)

\* reflect.ValueOf(st.sa) when it is an array or slice, else the
\* reflect.Value of an empty dummy slice
ForStartSlice(v) == RValueV(IF v.k = "seq" THEN v.e ELSE <<>>)

txForStart ==
    /\ At("for_start")
    /\ LET id == ArgInt
           slice == ForStartSlice(sa)
           s1 == SetLvar(stack, fmark, ItemSlot(id), Nil)
           s2 == SetLvar(s1, fmark, IndexSlot(id), IntV(0 - 1))
       IN  stack' = SetLvar(s2, fmark, SliceSlot(id), slice)
    /\ Advance
    /\ UNCHANGED <<sa, sb, markstack, output, warnings, calls, status, fixed>>

HasNextStopsEarly(len, index) == len > index + 1

\* slice.Len() > index
HasNext(len, index) == len > index

ItemAtFirst(e, index) == e[1]

\* slice.Index(index).Interface()
ItemAt(e, index) == e[index + 1]

\* the type assertions st.sa.(int), GetLvar(id + 1).(int) and
\* GetLvar(id + 2).(reflect.Value) panic on any other type, and so does
\* slice.Index out of range
txForIter ==
    /\ At("for_iter")
    /\ IF sa.k # "int"
       THEN Panic
       ELSE LET id == sa.i
                ixv == GetLvar(stack, fmark, IndexSlot(id))
                slv == GetLvar(stack, fmark, SliceSlot(id))
            IN  IF ixv.k # "int" \/ slv.k # "rvalue"
                THEN Panic
                ELSE LET index == ixv.i + 1
                         s1 == SetLvar(stack, fmark, IndexSlot(id), IntV(index))
                     IN  IF HasNext(Len(slv.e), index)
                         THEN IF index < 0 \/ index >= Len(slv.e)
                              THEN Panic
                              ELSE /\ stack' = SetLvar(s1, fmark, ItemSlot(id),
                                                       ItemAt(slv.e, index))
                                   /\ Advance
                                   /\ UNCHANGED <<sa, sb, markstack, output,
                                                  warnings, calls, status>>
                         ELSE /\ stack' = s1
                              /\ AdvanceBy(ArgInt)
                              /\ UNCHANGED <<sa, sb, markstack, output,
                                             warnings, calls, status>>
    /\ UNCHANGED fixed

txUriEscape ==
    /\ At("uri_escape")
    /\ sa' = StrV(escapeUriString(interfaceToString(sa)))
    /\ Advance
    /\ UNCHANGED <<sb, stack, markstack, output, warnings, calls, status, fixed>>

txHtmlEscape ==
    /\ At("html_escape")
    /\ sa' = StrV(htmlEscape(interfaceToString(sa)))
    /\ Advance
    /\ UNCHANGED <<sb, stack, markstack, output, warnings, calls, status, fixed>>

txEq ==
    /\ At("eq")
    /\ IF EqPanics(sb, sa)
       THEN Panic
       ELSE /\ sa' = BoolV(InterfaceEq(sb, sa))
            /\ Advance
            /\ UNCHANGED <<sb, stack, markstack, output, warnings, calls, status>>
    /\ UNCHANGED fixed

txNe ==
    /\ At("ne")
    /\ IF EqPanics(sb, sa)
       THEN Panic
       ELSE /\ sa' = BoolV(~InterfaceEq(sb, sa))
            /\ Advance
            /\ UNCHANGED <<sb, stack, markstack, output, warnings, calls, status>>
    /\ UNCHANGED fixed

txPopmark ==
    /\ At("popmark")
    /\ IF markstack = <<>>
       THEN Panic
       ELSE /\ markstack' = SubSeq(markstack, 1, Len(markstack) - 1)
            /\ Advance
            /\ UNCHANGED <<sa, sb, stack, output, warnings, calls, status>>
    /\ UNCHANGED fixed

txPushmark ==
    /\ At("pushmark")
    /\ markstack' = Append(markstack, Cur(stack))
    /\ Advance
    /\ UNCHANGED <<sa, sb, stack, output, warnings, calls, status, fixed>>

txPush ==
    /\ At("push")
    /\ stack' = Push(stack, sa)
    /\ Advance
    /\ UNCHANGED <<sa, sb, markstack, output, warnings, calls, status, fixed>>

ArityMatchesNoReceiver(numIn, nargs) == numIn - 1 = nargs

\* method.Func.Type().NumIn() != len(args) is the mismatch
ArityMatches(numIn, nargs) == numIn = nargs

CallStackPopped(s, mark) == [s EXCEPT !.cur = mark]

\* the invocant and the arguments are read with st.stack.Get and stay on
\* the operand stack
CallStack(s, mark) == s

\* invocant.Type() panics on the zero Value of a nil invocant
txMethodCall ==
    /\ At("methodcall")
    /\ IF markstack = <<>>
       THEN Panic
       ELSE LET name == interfaceToString(CurrentOp.arg)
                mark == CurrentMark
                tip  == Cur(stack)
                invocant == Get(stack, mark).v
                args == [j \in 1..(tip - mark) |-> Get(stack, mark + j - 1).v]
                method == MethodByName(invocant, name)
            IN  IF invocant = Nil
                THEN Panic
                ELSE IF ~method.ok
                THEN /\ sa' = Nil
                     /\ stack' = CallStack(stack, mark)
                     /\ Advance
                     /\ UNCHANGED <<sb, markstack, output, warnings,
                                    calls, status>>
                ELSE IF ~ArityMatches(method.numIn, Len(args))
                THEN /\ warnings' = warnings + 1
                     /\ sa' = Nil
                     /\ stack' = CallStack(stack, mark)
                     /\ Advance
                     /\ UNCHANGED <<sb, markstack, output, calls, status>>
                ELSE /\ calls' = Append(calls, name)
                     /\ sa' = IF method.numOut = 0 THEN StrV(<<>>)
                              ELSE CallResult(name, args)
                     /\ stack' = CallStack(stack, mark)
                     /\ Advance
                     /\ UNCHANGED <<sb, markstack, output, warnings,
                                    status>>
    /\ UNCHANGED fixed

\* the dispatch loop finds no operation at pc
runOffEnd ==
    /\ status = "running"
    /\ ~InRange
    /\ status' = "stopped"
    /\ UNCHANGED <<pc, sa, sb, stack, markstack, output, warnings, calls, fixed>>

Next ==
    \/ txEnd \/ txNil \/ txNoop \/ txMoveToSb \/ txMoveFromSb \/ txLiteral
    \/ txFetchSymbol \/ txFetchField \/ txMarkRaw \/ txUnmarkRaw
    \/ txPrint \/ txPrintRaw \/ txSaveToLvar \/ txLoadLvar
    \/ txAdd \/ txSub \/ txMul \/ txDiv \/ txAnd \/ txGoto
    \/ txForStart \/ txForIter \/ txUriEscape \/ txHtmlEscape
    \/ txEq \/ txNe \/ txPopmark \/ txPushmark \/ txPush \/ txMethodCall
    \/ runOffEnd

Spec == Init /\ [][Next]_vars

\* the dispatch loop keeps fetching and executing until it stops
FairSpec == Spec /\ WF_vars(Next)

TypeOK ==
    /\ status \in {"running", "halted", "panicked", "stopped"}
    /\ warnings \in Nat
    /\ Cur(stack) <= Len(stack.data)

----------------------------------------------------------------------------
(* Claims about the opcode handlers *)

s123 == <<"1", ",", "2", ",", "3", ",">>

xs123 == SeqV(<<IntV(1), IntV(2), IntV(3)>>)

HasXs == sxs \in DOMAIN stash

\* C1: every handler other than goto, and, for_iter and end leaves pc equal
\* to its previous value plus one, from any state; end leaves pc unchanged.
C1_PcAdvancesByOne ==
    [][(status = "running" /\ InRange)
         => IF CurrentOp.op = "end" THEN pc' = pc
            ELSE (CurrentOp.op \notin {"goto", "and", "for_iter"}
                     => pc' = pc + 1)]_vars

\* C2: print appends interfaceToString(SA) unchanged when SA is a raw
\* string, the HTML-escaped interfaceToString(SA) for any other non-nil
\* value, and for nil appends nothing and records a warning; SA, SB and
\* the operand stack stay as they were.
C2_Print ==
    [][At("print")
         => /\ sa.k = "raw" => output' = output \o sa.s
            /\ (sa # Nil /\ sa.k # "raw")
                  => output' = output \o htmlEscape(interfaceToString(sa))
            /\ sa = StrV(<<"<", "a", "&", "b", ">">>)
                  => output' = output \o <<"&", "l", "t", ";", "a",
                                           "&", "a", "m", "p", ";", "b",
                                           "&", "g", "t", ";">>
            /\ sa = Nil => (output' = output /\ warnings' = warnings + 1)
            /\ sa # Nil => warnings' = warnings
            /\ sa' = sa /\ sb' = sb /\ stack' = stack]_vars

\* "<a&b>" printed escaped, then raw; print and print_raw of the nil
\* register each warned
C2_Witness ==
    /\ prog = "print"
    /\ stash = Bag1(sv, StrV(<<"<", "a", "&", "b", ">">>))
    /\ status = "halted"
    /\ warnings = 2
    /\ SubSeq(output, 1, 20) =
          <<"&", "l", "t", ";", "a", "&", "a", "m", "p", ";", "b",
            "&", "g", "t", ";", "<", "a", "&", "b", ">">>

LoopRun == prog = "loop" /\ HasXs /\ stash[sxs].k = "seq"

LoopExpected(e) ==
    <<"b">> \o Concat([k \in 1..Len(e) |->
                          IntToString(e[k].i) \o IntToString(k - 1)])

\* C6: for_start id, for_iter offset, body, goto back (SA holding id at
\* each for_iter) over a sequence of length n enters the body exactly n
\* times, with slot id holding seq[0..n-1] in order and slot id+1 holding
\* 0..n-1; the (n+1)-th for_iter jumps by offset and the loop is exited.
C6_Foreach ==
    /\ [](LoopRun =>
            /\ (pc \in LoopBodyPcs /\ status = "running") =>
                  LET k == GetLvar(stack, fmark, LoopId + 1)
                  IN  /\ k.k = "int"
                      /\ k.i \in 0..(Len(stash[sxs].e) - 1)
                      /\ GetLvar(stack, fmark, LoopId) = stash[sxs].e[k.i + 1]
            /\ status # "running" =>
                  /\ status = "halted"
                  /\ pc = LoopIterPc + 7
                  /\ output = LoopExpected(stash[sxs].e)
                  /\ GetLvar(stack, fmark, LoopId + 1)
                        = IntV(Len(stash[sxs].e)))
    /\ (LoopRun ~> (status = "halted" /\ pc = LoopExitPc))

C6_Witness ==
    /\ LoopRun
    /\ Len(stash[sxs].e) = MaxSeqLen
    /\ status = "halted"
    /\ Len(output) = 1 + 2 * MaxSeqLen

\* C7 as stated: the bytecode fetch_s "xs", for_start 0, for_iter +5,
\* load_lvar 0, print, literal ",", print, goto -5, end with xs = [1,2,3]
\* reaches end with output "1,2,3,".
C7_Scenario6AsWritten ==
    (prog = "scenario6" /\ stash = Bag1(sxs, xs123) /\ status # "running")
        => (status = "halted" /\ output = s123)

\* C7 amended: with the loop id loaded into SA before each for_iter and
\* the exit offset leading to end (fetch_s "xs", for_start 0, literal 0,
\* for_iter +7, load_lvar 0, print, literal ",", print, literal 0, goto -6,
\* end) the render of xs = [1,2,3] reaches end with output "1,2,3,"; the
\* bytecode as written aborts at its first for_iter with nothing output.
C7_Foreach123 ==
    /\ []((prog = "foreach" /\ stash = Bag1(sxs, xs123) /\ status # "running")
            => (status = "halted" /\ pc = 10 /\ output = s123))
    /\ []((prog = "scenario6" /\ stash = Bag1(sxs, xs123) /\ status # "running")
            => (status = "panicked" /\ pc = 2 /\ output = <<>>))
    /\ ((prog = "foreach" /\ stash = Bag1(sxs, xs123))
            ~> (status = "halted" /\ output = s123))

C7_Witness ==
    /\ prog = "foreach"
    /\ stash = Bag1(sxs, xs123)
    /\ status = "halted"
    /\ output = s123

EmptyRun == HasXs /\ stash[sxs] = SeqV(<<>>)

\* C8: a foreach over an empty sequence never enters the body, appends
\* nothing to the output buffer and changes no operand-stack slot other
\* than id, id+1 and id+2.
C8_EmptyForeach ==
    /\ (prog = "loop" /\ EmptyRun) =>
          /\ pc \notin LoopBodyPcs
          /\ pc > 4 => /\ output = <<"b">>
                       /\ \A a \in 0..(Len(stack.data) - 1) :
                             a \notin LoopId..(LoopId + 2) =>
                                EntryAt(stack, a) =
                                   EntryAt(Set(Set(NewStack(StateStackCap),
                                       0, StrV(sa_)), 4, StrV(sb_)), a)
                       /\ Cur(stack) = 0
                       /\ Len(stack.data) = StateStackCap
    /\ (prog \in {"foreach", "scenario6"} /\ EmptyRun) =>
          /\ prog = "foreach" => pc \notin 4..9
          /\ prog = "scenario6" => pc \notin 3..7
          /\ output = <<>>
          /\ \A a \in 3..(Len(stack.data) - 1) : EntryAt(stack, a) = Nil
          /\ Cur(stack) = 0
          /\ Len(stack.data) = StateStackCap

\* the empty loop has been left through the exit branch of for_iter
C8_Witness ==
    /\ prog = "loop"
    /\ EmptyRun
    /\ status = "halted"
    /\ pc = LoopExitPc
    /\ GetLvar(stack, fmark, LoopId + 1) = IntV(0)
    /\ GetLvar(stack, fmark, LoopId + 2) = RValueV(<<>>)

Invocant == Get(stack, CurrentMark).v

AtMethodCall == At("methodcall") /\ markstack # <<>> /\ Invocant # Nil

\* C9: methodcall naming a method the invocant's type does not have
\* records a warning, sets SA to nil, does not abort and advances pc by one.
C9_MissingMethodWarns ==
    [][(AtMethodCall /\ ~MethodByName(Invocant, ArgString).ok)
         => /\ warnings' = warnings + 1
            /\ sa' = Nil
            /\ status' = "running"
            /\ pc' = pc + 1]_vars

\* C10: when the method exists but the number of values between the
\* current mark and the stack tip (invocant included) differs from the
\* method's declared arity, the method is not invoked, a warning is
\* recorded, SA becomes nil and pc advances by one.
C10_ArityMismatch ==
    [][(AtMethodCall /\ MethodByName(Invocant, ArgString).ok
          /\ MethodByName(Invocant, ArgString).numIn # Cur(stack) - CurrentMark)
         => /\ calls' = calls
            /\ warnings' = warnings + 1
            /\ sa' = Nil
            /\ status' = "running"
            /\ pc' = pc + 1]_vars

\* Name() called with one argument too many: warned, not invoked
C10_Witness ==
    /\ prog = "arity"
    /\ stash = Bag1(suser, RecV(UserType))
    /\ pc = 6
    /\ warnings = 1
    /\ calls = <<>>
    /\ sa = Nil
    /\ status = "running"

----------------------------------------------------------------------------
(* Claims about methodcall, the mark stack and the output buffer *)

\* C11: methodcall, whether the method is missing, its arity mismatches or
\* the call succeeds, leaves the operand-stack tip, the operand-stack
\* contents and the mark stack as they were; only SA, the warning sink and
\* PC may change.
C11_MethodCallKeepsStack ==
    [][At("methodcall")
         => /\ stack' = stack
            /\ markstack' = markstack
            /\ sb' = sb
            /\ output' = output]_vars

\* Name() refused for arity, Echo(7) and Touch() called, Echo() refused:
\* all six pushed values are still on the stack
C11_Witness ==
    /\ prog = "arity"
    /\ stash = Bag1(suser, RecV(UserType))
    /\ status = "halted"
    /\ calls = <<sEcho, sTouch>>
    /\ warnings = 4
    /\ Cur(stack) = 6
    /\ markstack = <<>>

\* C12: for a well-formed pushmark, (expr, push)*, methodcall, popmark
\* sequence, nested or not, the operand-stack tip after the popmark equals
\* the tip before the matching pushmark (the mark that pushmark recorded),
\* and the mark stack is as it was before that pushmark.
C12_BalancedMarks ==
    [][(At("popmark") /\ markstack # <<>>)
         => /\ Cur(stack') = CurrentMark
            /\ markstack' = SubSeq(markstack, 1, Len(markstack) - 1)]_vars

Appended ==
    IF At("print") /\ sa # Nil
    THEN (IF sa.k = "raw" THEN sa.s ELSE htmlEscape(interfaceToString(sa)))
    ELSE IF At("print_raw") /\ sa # Nil
    THEN interfaceToString(sa)
    ELSE <<>>

\* C17: within one render the output buffer is only ever extended: each
\* print or print_raw step appends its string at the end, in execution
\* order, and no other opcode changes the buffer.
C17_OutputOnlyAppended ==
    [][/\ output' = output \o Appended
       /\ SubSeq(output', 1, Len(output)) = output
       /\ ~(At("print") \/ At("print_raw")) => output' = output]_vars

\* "<b>" printed escaped, raw, escaped, raw, twice escaped and
\* percent-encoded, in that order
C17_Witness ==
    /\ prog = "print"
    /\ stash = Bag1(sv, StrV(<<"<", "b", ">">>))
    /\ status = "halted"
    /\ output = <<"&", "l", "t", ";", "b", "&", "g", "t", ";">>
                \o <<"<", "b", ">">>
                \o <<"&", "l", "t", ";", "b", "&", "g", "t", ";">>
                \o <<"<", "b", ">">>
                \o <<"&", "a", "m", "p", ";", "l", "t", ";", "b",
                     "&", "a", "m", "p", ";", "g", "t", ";">>
                \o <<"%", "2", "6", "l", "t", "%", "3", "B", "b",
                     "%", "2", "6", "g", "t", "%", "3", "B">>

\* C18: for any value in SA, mark_raw followed by unmark_raw leaves SA the
\* plain string interfaceToString(original SA), and a following print is
\* HTML-escaped.
C18_MarkUnmark ==
    (prog = "rawround" /\ status # "running")
        => /\ status = "halted"
           /\ sa = StrV(interfaceToString(sb))
           /\ output = htmlEscape(interfaceToString(sb))

\* C19: mark_raw completes for every SA value, nil included, leaving SA a
\* raw string holding interfaceToString of the previous SA ("" for nil,
\* unchanged if already raw), and advances pc by one.
C19_MarkRawTotal ==
    [][At("mark_raw")
         => /\ status' = "running"
            /\ sa' = RawV(interfaceToString(sa))
            /\ pc' = pc + 1]_vars

NonSeqRun == prog = "loop" /\ (~HasXs \/ stash[sxs].k # "seq")

\* C20: for_start id with a non-sequence in SA stores an empty sequence in
\* slot id+2, nil in slot id and -1 in slot id+1 without warning or
\* aborting; the first for_iter then takes the exit branch and the loop
\* body runs zero times.
C20_ForStartNonSequence ==
    NonSeqRun =>
        /\ status \in {"running", "halted"}
        /\ pc \notin LoopBodyPcs
        /\ warnings = 0
        /\ pc \in {7, 8} =>
              /\ GetLvar(stack, fmark, LoopId) = Nil
              /\ GetLvar(stack, fmark, LoopId + 1) = IntV(0 - 1)
              /\ GetLvar(stack, fmark, LoopId + 2) = RValueV(<<>>)
        /\ status = "halted" =>
              /\ pc = LoopExitPc
              /\ output = <<"b">>
              /\ GetLvar(stack, fmark, LoopId + 1) = IntV(0)

\* a string given to for_start: the loop was left at its first for_iter
C20_Witness ==
    /\ prog = "loop"
    /\ stash = Bag1(sxs, StrV(<<"h", "i">>))
    /\ status = "halted"
    /\ pc = LoopExitPc
    /\ output = <<"b">>
    /\ GetLvar(stack, fmark, LoopId + 2) = RValueV(<<>>)

----------------------------------------------------------------------------
(* CachedByteCodeLoader: Load over a MemoryCache and a FileCache *)

MaxTime == 1      \* the clock runs from 0 to MaxTime

Keys == {"a", "b"}

CacheNone == 0

CacheVerify == 1

CacheNoVerify == 2

CacheLevels == {CacheNone, CacheVerify, CacheNoVerify}

\* the two revisions of Load: "v1" fetches the source again to verify a
\* hit, "v2" keeps the TemplateSource in the cached entity
Impls == {"v1", "v2"}

Failures == {"none", "fetch", "lastmod", "read", "compile"}

\* a ByteCode is identified by its GeneratedOn time (gen) and by the
\* last-modified time of the content it was compiled from (of); NoEntry
\* stands for a nil bytecode and for an absent cache entry
NoEntry == [ok |-> FALSE, gen |-> 0, of |-> 0]

EmptyCache == [k \in Keys |-> NoEntry]

CacheGet(c, key) == [bc |-> c[key], err |-> c[key] = NoEntry]

CacheSet(c, key, bc) == [c EXCEPT ![key] = bc]

FirstHitFileFirst(mem, file, key) ==
    LET m == CacheGet(mem, key)
        f == CacheGet(file, key)
    IN  IF ~f.err THEN [bc |-> f.bc, err |-> FALSE, from |-> "file"]
        ELSE IF ~m.err THEN [bc |-> m.bc, err |-> FALSE, from |-> "memory"]
        ELSE [bc |-> NoEntry, err |-> TRUE, from |-> "none"]

\* for _, cache := range l.Caches: the first Get without error wins, the
\* MemoryCache being asked before the FileCache
FirstHit(mem, file, key) ==
    LET m == CacheGet(mem, key)
        f == CacheGet(file, key)
    IN  IF ~m.err THEN [bc |-> m.bc, err |-> FALSE, from |-> "memory"]
        ELSE IF ~f.err THEN [bc |-> f.bc, err |-> FALSE, from |-> "file"]
        ELSE [bc |-> NoEntry, err |-> TRUE, from |-> "none"]

BeforeOrEqual(t, g) == t <= g

\* time.Time.Before
Before(t, g) == t < g

\* TemplateSource.LastModified
LastModified(l, key) == l.src[key].mtime

\* LoadString / LoadReader on the current content of the source
Compile(l, key) == [ok |-> TRUE, gen |-> l.now, of |-> l.src[key].mtime]

NoRes ==
    [key |-> "", level |-> CacheNone, fail |-> "none", from |-> "none",
     consulted |-> FALSE, cached |-> NoEntry, fresh |-> FALSE,
     bc |-> NoEntry, err |-> FALSE,
     fetched |-> FALSE, compiled |-> FALSE, stored |-> FALSE,
     failed |-> "none"]

FailedSilently(r, what, didFetch) ==
    [r EXCEPT !.bc = NoEntry, !.failed = what, !.fetched = didFetch]

\* Load returning on an error of the named collaborator
Failed(r, what, didFetch) ==
    [r EXCEPT !.bc = NoEntry, !.err = TRUE, !.failed = what,
              !.fetched = didFetch]

\* The outcome of Load(key) when the collaborator named by fail, if it is
\* called at all, returns an error.
LoadResult(l, key, fail) ==
    LET consult == l.level > CacheNone
        hit == IF consult THEN FirstHit(l.mem, l.file, key)
               ELSE [bc |-> NoEntry, err |-> FALSE, from |-> "none"]
        useCache == consult /\ ~hit.err
        \* "v1" fetches the source before asking for its LastModified
        fetchToVerify == useCache /\ l.impl = "v1"
        fresh == useCache /\ Before(LastModified(l, key), hit.bc.gen)
        r0 == [NoRes EXCEPT !.key = key, !.level = l.level, !.fail = fail,
                            !.from = hit.from, !.consulted = consult,
                            !.cached = hit.bc,
                            !.fresh = fresh]
    IN  IF useCache /\ l.level = CacheNoVerify
        THEN [r0 EXCEPT !.bc = hit.bc]
        ELSE IF fetchToVerify /\ fail = "fetch"
        THEN Failed(r0, "fetch", TRUE)
        ELSE IF useCache /\ fail = "lastmod"
        THEN Failed(r0, "lastmod", fetchToVerify)
        ELSE IF fresh
        THEN [r0 EXCEPT !.bc = hit.bc, !.fetched = fetchToVerify]
        ELSE IF ~useCache /\ fail = "fetch"
        THEN Failed(r0, "fetch", TRUE)
        ELSE IF fail = "read"
        THEN Failed(r0, "read", fetchToVerify \/ ~useCache)
        ELSE IF fail = "compile"
        THEN Failed(r0, "compile", fetchToVerify \/ ~useCache)
        ELSE [r0 EXCEPT !.bc = Compile(l, key),
                        !.fetched = fetchToVerify \/ ~useCache,
                        !.compiled = TRUE, !.stored = TRUE]

vmside == <<prog, stash, pc, sa, sb, stack, fmark, markstack, output,
            warnings, calls, status, last, pend, hist, ast>>

\* NewCachedByteCodeLoader with an empty FileCache directory
InitLoader ==
    /\ VMIdle
    /\ stack = NewStack(StateStackCap)
    /\ fmark = 0
    /\ last = NoLast
    /\ pend = NoPend
    /\ hist = <<>>
    /\ ast = NoAst
    /\ \E i \in Impls, lv \in CacheLevels :
          ld = [impl |-> i, level |-> lv, now |-> 0,
                src |-> [k \in Keys |-> [mtime |-> 0]],
                mem |-> EmptyCache, file |-> EmptyCache, res |-> NoRes]

\* time passes
Tick ==
    /\ ld.now < MaxTime
    /\ ld' = [ld EXCEPT !.now = @ + 1, !.res = NoRes]
    /\ UNCHANGED vmside

\* a template file is edited, which sets its last-modified time
Modify ==
    /\ \E key \in Keys :
          /\ ld.src[key].mtime < ld.now
          /\ ld' = [ld EXCEPT !.src[key].mtime = ld.now, !.res = NoRes]
    /\ UNCHANGED vmside

\* CachedByteCodeLoader.Load, with the cache.Set loop that ends it
Load ==
    /\ \E key \in Keys, fail \in Failures :
          LET r == LoadResult(ld, key, fail)
          IN  ld' = [ld EXCEPT
                       !.mem  = IF r.stored THEN CacheSet(@, key, r.bc) ELSE @,
                       !.file = IF r.stored THEN CacheSet(@, key, r.bc) ELSE @,
                       !.res  = r]
    /\ UNCHANGED vmside

\* the process starts again: NewCachedByteCodeLoader makes a new
\* MemoryCache, the FileCache directory is as it was left
Restart ==
    /\ ld' = [ld EXCEPT !.mem = EmptyCache, !.res = NoRes]
    /\ UNCHANGED vmside

\* FileCache.Set called on the shared directory with bytecode compiled now
FileCacheSet ==
    /\ \E key \in Keys :
          ld' = [ld EXCEPT !.file = CacheSet(@, key, Compile(ld, key)),
                           !.res = NoRes]
    /\ UNCHANGED vmside

NextLoader == Tick \/ Modify \/ Load \/ Restart \/ FileCacheSet

LoaderSpec == InitLoader /\ [][NextLoader]_vars

----------------------------------------------------------------------------
(* Claims about Load *)

\* a step that is a Load of key ld'.res.key
LoadStep == ld'.res.key # ""

Held(l, key) == l.mem[key].ok \/ l.file[key].ok

\* C13: under CacheNone, Load consults no cache backend and stores into
\* none: every Load fetches, parses and compiles the source (unless one of
\* these fails), and every cache is the same after Load as before.
C13_CacheNoneBypasses ==
    [][(LoadStep /\ ld.level = CacheNone)
         => /\ ~ld'.res.consulted
            /\ ld'.res.fetched
            /\ ld'.res.fail = "none" => ld'.res.compiled
            /\ ld'.mem = ld.mem
            /\ ld'.file = ld.file]_vars

C15_NoVerifyHit ==
    [][(LoadStep /\ ld.level = CacheNoVerify /\ Held(ld, ld'.res.key))
         => LET k == ld'.res.key
                r == ld'.res
            IN  /\ r.bc = (IF ld.mem[k].ok THEN ld.mem[k] ELSE ld.file[k])
                /\ ~r.err
                /\ ~r.fetched
                /\ ~r.compiled
                /\ ld'.mem = ld.mem
                /\ ld'.file = ld.file]_vars

\* the MemoryCache entry was returned although the FileCache holds a newer
\* one and the source was edited after the returned bytecode was generated
C15_Witness ==
    /\ ld.level = CacheNoVerify
    /\ ld.res.key = "a"
    /\ ld.res.bc = ld.mem["a"]
    /\ ld.res.bc.ok
    /\ ld.file["a"].ok
    /\ ld.file["a"] # ld.mem["a"]
    /\ ld.src["a"].mtime > ld.res.bc.gen

\* C16: when fetching the source, reading its last-modified time or its
\* content, or compiling it fails during Load, Load returns a nil bytecode
\* and a non-nil error and has written no cache for that key; a miss in
\* every cache, with no such failure, never makes Load fail.
C16_LoadErrors ==
    [][LoadStep
         => LET k == ld'.res.key
                r == ld'.res
            IN  /\ r.err = (r.failed # "none")
                /\ r.err = ~r.bc.ok
                /\ r.failed # "none"
                      => /\ r.failed = r.fail
                         /\ ld'.mem[k] = ld.mem[k]
                         /\ ld'.file[k] = ld.file[k]
                /\ (r.fail = "fetch" /\ ~(ld.level > CacheNone /\ Held(ld, k)))
                      => r.failed = "fetch"
                /\ (r.fail \in {"read", "compile"}
                    /\ ~(ld.level > CacheNone /\ Held(ld, k)))
                      => r.failed = r.fail
                /\ (r.fail = "none" /\ ~Held(ld, k))
                      => (~r.err /\ r.compiled)]_vars

\* compiling an edited source failed on a stale hit: the caches still hold
\* the stale entry
C16_Witness ==
    /\ ld.level = CacheVerify
    /\ ld.res.key = "a"
    /\ ld.res.failed = "compile"
    /\ ld.res.err
    /\ ~ld.res.bc.ok
    /\ ld.res.cached.ok
    /\ ld.mem["a"] = ld.res.cached
    /\ ld.file["a"] = ld.res.cached
    /\ ld.src["a"].mtime > ld.res.cached.gen

----------------------------------------------------------------------------
(* Claims about field access, integer arithmetic and DeclareVar *)

\* C21: fetch_field_s never aborts the render: a nil SA stays nil, a
\* non-nil SA without the field named by the argument (first rune
\* upper-cased), be it a record lacking the field or a non-record, gives a
\* warning and SA = nil; in every case pc advances by one.
C21_FetchFieldNeverAborts ==
    [][At("fetch_field_s")
         => /\ status' = "running"
            /\ pc' = pc + 1
            /\ sa = Nil => (sa' = Nil /\ warnings' = warnings)
            /\ (sa # Nil /\ ~HasField(sa, FieldName(ArgString)))
                  => (sa' = Nil /\ warnings' = warnings + 1)]_vars

BothInt == sb.k = "int" /\ sa.k = "int"

\* C22: for signed-integer operands add, sub and mul take SB as the left
\* and SA as the right operand: afterwards SA is the integer SB+SA, SB-SA
\* (not SA-SB) and SB*SA respectively, and SB is unchanged.
C22_IntArithmetic ==
    [][BothInt
         => /\ At("add") => (sa' = IntV(sb.i + sa.i) /\ sb' = sb)
            /\ At("sub") => (sa' = IntV(sb.i - sa.i) /\ sb' = sb)
            /\ At("mul") => (sa' = IntV(sb.i * sa.i) /\ sb' = sb)]_vars

\* a = 2 in SB and b = 3 in SA: 5, -1 and 6 were printed in that order
C22_Witness ==
    /\ prog = "arith"
    /\ stash = Bag2(sa_, IntV(2), sb_, IntV(3))
    /\ pc = 11
    /\ sb = IntV(2)
    /\ output = <<"5", "-", "1", "6">>

\* C23: DeclareVar(v) returns the index at which v now resides: on a frame
\* with mark 0, GetLvar of the returned index gives v back, and successive
\* DeclareVar calls return strictly increasing indices.
C23_DeclareVarIndex ==
    [][(last'.op = "DeclareVar" /\ fmark' = 0)
         => /\ GetLvar(stack', fmark', last'.i) = last'.v
            /\ last.op = "DeclareVar" => last'.i > last.i]_vars

----------------------------------------------------------------------------
(* MemoryCache: a Go map from keys to bytecode pointers *)

MaxOps == 3       \* Set and Delete calls made on one MemoryCache

\* two bytecodes and the nil pointer
CacheVals == {NoEntry, [ok |-> TRUE, gen |-> 0, of |-> 0],
              [ok |-> TRUE, gen |-> 1, of |-> 0]}

Miss == [bc |-> NoEntry, err |-> TRUE]

MemoryCacheGet(c, key) ==
    IF key \in DOMAIN c THEN [bc |-> c[key], err |-> FALSE] ELSE Miss

MemoryCacheSet(c, key, bc) ==
    [k \in DOMAIN c \cup {key} |-> IF k = key THEN bc ELSE c[k]]

MemoryCacheDeleteAll(c, key) == [k \in {} |-> NoEntry]

MemoryCacheDelete(c, key) == [k \in DOMAIN c \ {key} |-> c[k]]

NoGet == [key |-> "", bc |-> NoEntry, err |-> FALSE]

NoDel == [key |-> "", absent |-> FALSE, changed |-> FALSE, err |-> FALSE]

\* MemoryCache{}: log is the sequence of Set and Delete calls made so far,
\* res the outcome of the last Get, del that of the last Delete
InitCache ==
    /\ VMIdle
    /\ stack = NewStack(StateStackCap)
    /\ fmark = 0
    /\ last = NoLast
    /\ pend = NoPend
    /\ hist = <<>>
    /\ ast = NoAst
    /\ ld = [impl |-> "cache", mem |-> <<>>, log |-> <<>>, res |-> NoGet,
             del |-> NoDel]

DoCacheSet ==
    /\ Len(ld.log) < MaxOps
    /\ \E key \in Keys, bc \in CacheVals :
          ld' = [ld EXCEPT
                   !.mem = MemoryCacheSet(@, key, bc),
                   !.log = Append(@, [op |-> "Set", key |-> key, bc |-> bc]),
                   !.res = NoGet, !.del = NoDel]
    /\ UNCHANGED vmside

DoCacheDelete ==
    /\ Len(ld.log) < MaxOps
    /\ \E key \in Keys :
          LET c == MemoryCacheDelete(ld.mem, key)
          IN  ld' = [ld EXCEPT
                       !.mem = c,
                       !.log = Append(@, [op |-> "Delete", key |-> key,
                                          bc |-> NoEntry]),
                       !.res = NoGet,
                       !.del = [key |-> key, absent |-> key \notin DOMAIN ld.mem,
                                changed |-> c # ld.mem, err |-> FALSE]]
    /\ UNCHANGED vmside

DoCacheGet ==
    /\ \E key \in Keys :
          LET r == MemoryCacheGet(ld.mem, key)
          IN  ld' = [ld EXCEPT !.res = [key |-> key, bc |-> r.bc,
                                        err |-> r.err]]
    /\ UNCHANGED vmside

NextCache == DoCacheSet \/ DoCacheDelete \/ DoCacheGet

CacheSpec == InitCache /\ [][NextCache]_vars

RECURSIVE LastWrite(_, _)
\* what the calls in log say Get(key) returns: the value of the last
\* Set(key, _) unless a Delete(key) came after it, else a miss
LastWrite(log, key) ==
    IF log = <<>> THEN Miss
    ELSE LET e == log[Len(log)]
         IN  IF e.key # key THEN LastWrite(SubSeq(log, 1, Len(log) - 1), key)
             ELSE IF e.op = "Set" THEN [bc |-> e.bc, err |-> FALSE]
             ELSE Miss

\* C24: after any sequence of Set and Delete calls on a MemoryCache,
\* Get(key) returns the value of the most recent Set(key, _) if no
\* Delete(key) followed it and ErrCacheMiss otherwise; calls on one key
\* never change what Get returns for another key, and Delete of an absent
\* key succeeds with no effect.
C24_MemoryCache ==
    /\ \A k \in Keys : MemoryCacheGet(ld.mem, k) = LastWrite(ld.log, k)
    /\ ld.res.key # ""
          => [bc |-> ld.res.bc, err |-> ld.res.err]
                = LastWrite(ld.log, ld.res.key)
    /\ (ld.del.key # "" /\ ld.del.absent)
          => (~ld.del.err /\ ~ld.del.changed)

\* Set(a, x), Delete(a), Set(b, y), then Get(a) misses
C24_Witness ==
    /\ Len(ld.log) = 3
    /\ ld.log[1].op = "Set" /\ ld.log[1].key = "a" /\ ld.log[1].bc.ok
    /\ ld.log[2].op = "Delete" /\ ld.log[2].key = "a"
    /\ ld.log[3].op = "Set" /\ ld.log[3].key = "b" /\ ld.log[3].bc.ok
    /\ ld.res.key = "a"
    /\ ld.res.err
    /\ MemoryCacheGet(ld.mem, "b").bc = ld.log[3].bc

----------------------------------------------------------------------------
(* Parser nodes: construction, Append and Copy on a heap of nodes *)

MaxNodes == 4     \* nodes allocated on the heap

MaxKids == 1      \* length of a child list

\* A node is identified by its index in ast.nodes. type is the Go struct,
\* nt the NodeType it reports, lst the index in ast.lists of the Nodes
\* slice of its (embedded) ListNode, list the List expression of a
\* ForeachNode and cond the BooleanExpression of an IfNode (0 for nil).
NodeRec(type, nt, lst, list, cond) ==
    [type |-> type, nt |-> nt, lst |-> lst, list |-> list, cond |-> cond]

NewNodeId(h) == Len(h.nodes) + 1

NewListNode(h) ==
    [h EXCEPT !.lists = Append(@, <<>>),
              !.nodes = Append(@, NodeRec("List", "List",
                                          Len(h.lists) + 1, 0, 0))]

NewTextNode(h) ==
    [h EXCEPT !.nodes = Append(@, NodeRec("Text", "Text", 0, 0, 0))]

\* NewForeachNode leaves List nil; list is what the parser assigns to it
NewForeachNode(h, list) ==
    [h EXCEPT !.lists = Append(@, <<>>),
              !.nodes = Append(@, NodeRec("Foreach", "Foreach",
                                          Len(h.lists) + 1, list, 0))]

NewIfNode(h, exp) ==
    [h EXCEPT !.lists = Append(@, <<>>),
              !.nodes = Append(@, NodeRec("If", "If",
                                          Len(h.lists) + 1, 0, exp))]

Kids(h, n) == IF h.nodes[n].lst = 0 THEN <<>> ELSE h.lists[h.nodes[n].lst]

ListNodeAppend(h, p, c) == [h EXCEPT !.lists[h.nodes[p].lst] = Append(@, c)]

Returned(h, ret) == [h |-> h, ret |-> ret, panicked |-> FALSE]

TextNodeCopy(h, n) == Returned(NewTextNode(h), NewNodeId(h))

\* a new ListNode whose Nodes is a new slice with the same elements
ListNodeCopy(h, n) ==
    LET h1 == NewListNode(h)
        x  == NewNodeId(h)
    IN  Returned([h1 EXCEPT !.lists[h1.nodes[x].lst] = Kids(h, n)], x)

\* the ListNode of the copy comes from ListNode.Copy, so the copy reports
\* NodeList; a BooleanExpression (a TextNode here) is copied as well
IfNodeCopy(h, n) ==
    LET e  == h.nodes[n].cond
        h1 == IF e = 0 THEN h ELSE TextNodeCopy(h, e).h
        e1 == IF e = 0 THEN 0 ELSE NewNodeId(h)
        h2 == [h1 EXCEPT !.lists = Append(@, Kids(h, n)),
                         !.nodes = Append(@, NodeRec("If", "List",
                                                     Len(h1.lists) + 1,
                                                     0, e1))]
    IN  Returned(h2, NewNodeId(h1))

\* n.List.Copy() on a nil List is a nil-interface call and panics; the new
\* node x is built and dropped, the receiver itself is returned
ForeachNodeCopy(h, n) ==
    IF h.nodes[n].list = 0
    THEN [h |-> h, ret |-> 0, panicked |-> TRUE]
    ELSE Returned(h, n)

NodeCopy(h, n) ==
    CASE h.nodes[n].type = "List"    -> ListNodeCopy(h, n)
      [] h.nodes[n].type = "Foreach" -> ForeachNodeCopy(h, n)
      [] h.nodes[n].type = "If"      -> IfNodeCopy(h, n)
      [] h.nodes[n].type = "Text"    -> TextNodeCopy(h, n)

NoCopy == [recv |-> 0, ret |-> 0, panicked |-> FALSE]

nodeside == <<prog, stash, pc, sa, sb, stack, fmark, markstack, output,
              warnings, calls, status, last, pend, hist, ld>>

InitNodes ==
    /\ VMIdle
    /\ stack = NewStack(StateStackCap)
    /\ fmark = 0
    /\ last = NoLast
    /\ pend = NoPend
    /\ hist = <<>>
    /\ ld = NoLoader
    /\ ast = [kind |-> "heap", nodes |-> <<>>, lists |-> <<>>, cp |-> NoCopy]

TextIds == {n \in 1..Len(ast.nodes) : ast.nodes[n].type = "Text"}

ListIds == {n \in 1..Len(ast.nodes) : ast.nodes[n].lst # 0}

DoNewNode ==
    /\ Len(ast.nodes) < MaxNodes
    /\ \E type \in {"List", "Text", "Foreach", "If"}, e \in {0} \cup TextIds :
          /\ type \in {"List", "Text"} => e = 0
          /\ ast' = CASE type = "List"    -> NewListNode(ast)
                      [] type = "Text"    -> NewTextNode(ast)
                      [] type = "Foreach" -> NewForeachNode(ast, e)
                      [] type = "If"      -> NewIfNode(ast, e)
    /\ UNCHANGED nodeside

DoAppend ==
    /\ \E p \in ListIds, c \in 1..Len(ast.nodes) :
          /\ Len(Kids(ast, p)) < MaxKids
          /\ ast' = ListNodeAppend(ast, p, c)
    /\ UNCHANGED nodeside

DoCopy ==
    /\ \E n \in 1..Len(ast.nodes) :
          LET r == NodeCopy(ast, n)
          IN  /\ Len(r.h.nodes) <= MaxNodes
              /\ ast' = [r.h EXCEPT !.cp = [recv |-> n, ret |-> r.ret,
                                            panicked |-> r.panicked]]
    /\ UNCHANGED nodeside

NextNodes == DoNewNode \/ DoAppend \/ DoCopy

NodeSpec == InitNodes /\ [][NextNodes]_vars

HoldsChildList(h, n) == h.nodes[n].type \in {"List", "Foreach", "If"}

\* C25: for a ListNode, ForeachNode or IfNode, Copy returns a node distinct
\* from the receiver whose child list is independent: appending a node to
\* the copy leaves the original's child list unchanged, and vice versa.
C25_CopyIndependent ==
    [][(ast'.cp.recv # 0 /\ HoldsChildList(ast', ast'.cp.recv))
         => LET recv == ast'.cp.recv
                ret  == ast'.cp.ret
            IN  /\ ~ast'.cp.panicked
                /\ ret # recv
                /\ ast'.cp = ast.cp
                      => ~(/\ Kids(ast', recv) # Kids(ast, recv)
                           /\ Kids(ast', ret) # Kids(ast, ret))]_vars

----------------------------------------------------------------------------
(* Visit: a node sends itself and its subtree on an unbuffered channel *)

MaxDepth == 2     \* nesting depth of the visited tree

MaxBranch == 2    \* children of one node of the visited tree

\* A tree is a record: type, the child list kids, and for an IfNode what
\* its BooleanExpression is ("nil" or "text"). A node of the tree is named
\* by its path from the root, the BooleanExpression being child 0.
TextTree == [type |-> "Text", kids |-> <<>>, cond |-> "none"]

RECURSIVE TreesOfDepth(_)
TreesOfDepth(d) ==
    IF d = 0 THEN {TextTree}
    ELSE LET sub == TreesOfDepth(d - 1)
             lists == UNION {[1..m -> sub] : m \in 0..MaxBranch}
         IN  {TextTree}
             \cup {[type |-> ty, kids |-> ks, cond |-> "none"] :
                      ty \in {"List", "Foreach"}, ks \in lists}
             \cup {[type |-> "If", kids |-> ks, cond |-> c] :
                      ks \in lists, c \in {"nil", "text"}}

\* what travels on the channel: a node, or the nil Node interface
Item(p) == [p |-> p, nil |-> FALSE]

NilItem == [p |-> <<>>, nil |-> TRUE]

RECURSIVE NodeVisit(_, _)

TextNodeVisit(t, p) == <<Item(p)>>

ListNodeVisit(t, p) ==
    <<Item(p)>>
    \o Concat([i \in 1..Len(t.kids) |-> NodeVisit(t.kids[i], Append(p, i))])

ForeachNodeVisit(t, p) ==
    <<Item(p)>>
    \o Concat([i \in 1..Len(t.kids) |-> NodeVisit(t.kids[i], Append(p, i))])

\* c <- n, c <- n.BooleanExpression, then c <- child for every child
IfNodeVisit(t, p) ==
    <<Item(p), IF t.cond = "nil" THEN NilItem ELSE Item(Append(p, 0))>>
    \o [i \in 1..Len(t.kids) |-> Item(Append(p, i))]

\* the sends of n.Visit(c), in order
NodeVisit(t, p) ==
    CASE t.type = "Text"    -> TextNodeVisit(t, p)
      [] t.type = "List"    -> ListNodeVisit(t, p)
      [] t.type = "Foreach" -> ForeachNodeVisit(t, p)
      [] t.type = "If"      -> IfNodeVisit(t, p)

NoItem == [p |-> <<>>, nil |-> FALSE, none |-> TRUE]

InitVisit ==
    /\ VMIdle
    /\ stack = NewStack(StateStackCap)
    /\ fmark = 0
    /\ last = NoLast
    /\ pend = NoPend
    /\ hist = <<>>
    /\ ld = NoLoader
    /\ \E tr \in TreesOfDepth(MaxDepth) :
          ast = [kind |-> "visit", tree |-> tr, sent |-> 0, ch |-> NoItem,
                 got |-> <<>>, done |-> FALSE]

\* c <- x: the sender offers the next node and waits for it to be taken
VisitSend ==
    /\ ~ast.done
    /\ ast.ch = NoItem
    /\ ast.sent < Len(NodeVisit(ast.tree, <<>>))
    /\ ast' = [ast EXCEPT !.ch = NodeVisit(ast.tree, <<>>)[ast.sent + 1],
                          !.sent = @ + 1]
    /\ UNCHANGED nodeside

\* <-c in the receiving goroutine
Receive ==
    /\ ast.ch # NoItem
    /\ ast' = [ast EXCEPT !.got = Append(@, ast.ch), !.ch = NoItem]
    /\ UNCHANGED nodeside

\* Visit returns after its last send has been taken
VisitReturn ==
    /\ ~ast.done
    /\ ast.ch = NoItem
    /\ ast.sent = Len(NodeVisit(ast.tree, <<>>))
    /\ ast' = [ast EXCEPT !.done = TRUE]
    /\ UNCHANGED nodeside

NextVisit == VisitSend \/ Receive \/ VisitReturn

VisitSpec == InitVisit /\ [][NextVisit]_vars

RECURSIVE PreOrder(_, _)
\* a node, then the subtrees of its children in list order
PreOrder(t, p) ==
    <<Item(p)>>
    \o Concat([i \in 1..Len(t.kids) |-> PreOrder(t.kids[i], Append(p, i))])

\* C26: Visit on a node sends that node and then every node of its subtree
\* exactly once in pre-order (a parent before its children, children in
\* list order), for trees of ListNode, ForeachNode, IfNode and TextNode
\* nested to any depth, and returns once a receiver has taken all of them.
C26_VisitPreOrder ==
    ast.done => ast.got = PreOrder(ast.tree, <<>>)

====
